---- MODULE Spec2Model ----
(***************************************************************************)
(* Inventory optimisation pipeline: demand forecaster, stock policy engine *)
(* (safety stock, reorder point, EOQ, status, risk) and recommendation     *)
(* engine.                                                                 *)
(*                                                                         *)
(* Number representation (floating point is modelled in fixed point):      *)
(*   demand means and standard deviations : tenths of a unit   (x10)       *)
(*   lead_time_std_weeks, weekly_demand,                                   *)
(*   weeks_of_cover                       : tenths             (x10)       *)
(*   unit_cost                            : cents              (x100)      *)
(*   z, stockout_risk                     : thousandths        (x1000)     *)
(*   service_level                        : percent            (x100)      *)
(*   current_stock, safety_stock, reorder_point, eoq, lead_time_weeks,     *)
(*   recommended_order_qty, predicted demand : integers as in the code     *)
(* A NaN cell of the inventory table is the value NaN, and comparisons     *)
(* with it are false as in IEEE arithmetic.                                *)
(***************************************************************************)
EXTENDS Integers, Sequences, FiniteSets, TLC

\* ---------------------------------------------------------------- bounds
MaxRows == 3         \* rows of the inventory table of a multi-row run
NumSeries == 2       \* (category, variant) combinations
NumPeriods == 9      \* calendar months covered by the order history
MaxBias == 1         \* the fitted model's intercept is drawn from -1..MaxBias

\* ------------------------------------------------------ program constants
Horizon == 6         \* months forecast ahead, and months held out
OrderingCost == 50   \* ordering cost per order of the EOQ formula

\* ------------------------------------------------------------- arithmetic
NaN == -999999

IsNaN(x) == x = NaN

\* IEEE comparisons: false as soon as one side is NaN
Gt(x, y) == ~IsNaN(x) /\ ~IsNaN(y) /\ x > y
Lt(x, y) == ~IsNaN(x) /\ ~IsNaN(y) /\ x < y
Le(x, y) == ~IsNaN(x) /\ ~IsNaN(y) /\ x <= y

\* Python's builtin max/min of two numbers: max(a, b) is b when b > a, else a
PyMax(a, b) == IF Gt(b, a) THEN b ELSE a
PyMin(a, b) == IF Lt(b, a) THEN b ELSE a

\* round(num/den) for den > 0, ties to the even integer as Python's round
RoundDiv(num, den) ==
    LET q == num \div den
        r == num - q * den
    IN  IF 2 * r < den THEN q
        ELSE IF 2 * r > den THEN q + 1
        ELSE IF q % 2 = 0 THEN q ELSE q + 1

RECURSIVE ISqrtIn(_, _, _)
\* largest r in lo..hi with r*r <= n (bisection)
ISqrtIn(n, lo, hi) ==
    IF lo >= hi THEN lo
    ELSE LET mid == (lo + hi + 1) \div 2
         IN  IF mid * mid <= n THEN ISqrtIn(n, mid, hi)
             ELSE ISqrtIn(n, lo, mid - 1)

\* floor(sqrt(n)) for 0 <= n < 2^31
ISqrt(n) == ISqrtIn(n, 0, 46340)

\* round(sqrt(p/q)) for p >= 0, q > 0, ties to even
RoundSqrt(p, q) ==
    LET k == ISqrt((4 * p) \div q)      \* floor(2*sqrt(p/q))
        tie == k % 2 = 1 /\ k * k * q = 4 * p
        n == (k + 1) \div 2
    IN  IF tie /\ n % 2 = 1 THEN n - 1 ELSE n

RECURSIVE SumSeq(_)
SumSeq(s) == IF s = << >> THEN 0 ELSE Head(s) + SumSeq(Tail(s))

RECURSIVE SumSq(_)
SumSq(s) == IF s = << >> THEN 0 ELSE Head(s) * Head(s) + SumSq(Tail(s))

\* ------------------------------------------------------------------ state
VARIABLES
    pc,             \* position of the running entry point
    orders_df,      \* the orders table handed to build_monthly_demand
    entry,          \* which entry point runs: "main", "policy", "forecaster"
    log,            \* lines printed by main() so far (markers)
    failure,        \* what the interpreter reports when the run died
    inventory,      \* inventory_levels.csv as read by the stock policy run
    service_level,  \* the service_level argument of the stock policy run
    forecast_in,    \* the forecast_df argument: [given, rows]
    idx,            \* next inventory row of the iterrows() loop
    records,        \* records appended so far by the stock policy loop
    result_df,      \* table returned by the stock policy run
    recs,           \* list returned by generate_recommendations
    monthly,        \* output of build_monthly_demand
    demand_df,      \* usable feature rows in train_and_forecast
    model,          \* the fitted regressor
    train,          \* training rows
    test,           \* holdout rows
    forecast_df,    \* the buffer of the multi-step forecast loop
    future_records, \* forecast rows produced so far
    step,           \* i of the forecast loop
    combo           \* position in combos within step i

vars == <<pc, orders_df, entry, log, failure, inventory, service_level, forecast_in, idx,
          records, result_df, recs, monthly, demand_df, model, train, test,
          forecast_df, future_records, step, combo>>

policyVars == <<inventory, service_level, forecast_in, idx, records, result_df>>
forecastVars == <<monthly, demand_df, model, train, test, forecast_df,
                  future_records, step, combo>>

\* ------------------------------------------------- stock policy engine
\* scipy.stats.norm.ppf at the service levels the model uses (percent -> z*1000)
NormPpf(sl) ==
    CASE sl = 5  -> -1645
      [] sl = 30 -> -524
      [] sl = 50 -> 0
      [] sl = 90 -> 1282
      [] sl = 95 -> 1645
      [] sl = 99 -> 2326

\* calculate_safety_stock.  mean10, std10: monthly demand mean and std in
\* tenths; lead: weeks; ltstd10: lead time std in tenths of a week.
\*   sqrt(lead*std_w^2 + mean_w^2*ltstd^2) = sqrt(radicand)/433
\*   with radicand = 433*lead*std10^2 + mean10^2*ltstd10^2
\* A NaN operand or a negative radicand makes ss NaN and round(ss) raises.
calculate_safety_stock(mean10, std10, lead, ltstd10, sl) ==
    LET z == NormPpf(sl)
        radicand == 433 * lead * std10 * std10 + mean10 * mean10 * ltstd10 * ltstd10
    IN  IF IsNaN(mean10) \/ IsNaN(std10) \/ IsNaN(lead) \/ IsNaN(ltstd10)
           \/ radicand < 0
        THEN [raises |-> TRUE]
        ELSE LET zroot == z * ISqrt(radicand)       \* ss * 433000
             IN  [raises |-> FALSE,
                  safety_stock |-> RoundDiv(zroot, 433000),
                  reorder_point |-> RoundDiv(mean10 * lead * 10000 + zroot, 433000),
                  z_score |-> RoundDiv(z, 10),
                  weekly_demand |-> RoundDiv(mean10 * 100, 433)]

\* the rows of forecast_df of one (category, variant), their predicted column
Predicted(fc, series) ==
    LET RECURSIVE Pick(_)
        Pick(s) == IF s = << >> THEN << >>
                   ELSE IF Head(s).series = series
                        THEN <<Head(s).predicted>> \o Pick(Tail(s))
                        ELSE Pick(Tail(s))
    IN  Pick(fc.rows)

\* groupby(...)["predicted"].agg("mean"), in tenths
AggMean(p) == RoundDiv(10 * SumSeq(p), Len(p))

\* groupby(...)["predicted"].agg("std"): sample std (ddof = 1), in tenths;
\* NaN for a single row
AggStd(p) ==
    IF Len(p) < 2 THEN NaN
    ELSE RoundSqrt(100 * (Len(p) * SumSq(p) - SumSeq(p) * SumSeq(p)),
                   Len(p) * (Len(p) - 1))

\* demand estimate of one inventory row: <<mean10, std10>>
DemandEstimate(row, fc) ==
    LET avg == row.monthly_demand_avg
        p == IF fc.given THEN Predicted(fc, row.series) ELSE << >>
    IN  IF fc.given /\ Len(p) > 0
        THEN <<AggMean(p), PyMax(AggStd(p), 10)>>
        ELSE <<avg, RoundDiv(3 * avg, 10)>>

\* mutant: the floor at 1 is missing
EoqAtNoFloor(mean10, unit_cost, ordering_cost) ==
    IF Gt(unit_cost, 0)
    THEN RoundSqrt(1200 * ordering_cost * mean10, unit_cost)
    ELSE RoundDiv(mean10, 10)

\* the EOQ branch as an expression of ordering_cost:
\* sqrt(2*annual_demand*ordering_cost/(unit_cost*0.20))
\*   = sqrt(1200*ordering_cost*mean10/cents), rounded and floored at 1
EoqAt(mean10, unit_cost, ordering_cost) ==
    IF Gt(unit_cost, 0)
    THEN PyMax(RoundSqrt(1200 * ordering_cost * mean10, unit_cost), 1)
    ELSE RoundDiv(mean10, 10)

\* EOQ with ordering_cost = 50
Eoq(mean10, unit_cost) == EoqAt(mean10, unit_cost, OrderingCost)

\* mutant: the reorder point is tested before half the safety stock
StatusOfWarningFirst(current, ss, rop) ==
    IF current <= rop THEN "warning"
    ELSE IF 2 * current <= ss THEN "critical"
    ELSE "ok"

\* status: current <= ss*0.5, else current <= rop, else ok
StatusOf(current, ss, rop) ==
    IF 2 * current <= ss THEN "critical"
    ELSE IF current <= rop THEN "warning"
    ELSE "ok"

\* round(risk, 3) in thousandths
RiskOf(status, current, rop) ==
    LET m == PyMax(rop, 1)
    IN  CASE status = "critical" -> PyMin(950, RoundDiv(1000 * (m - current), m))
          [] status = "warning"  -> PyMin(700, RoundDiv(1000 * (m - current), m))
          [] OTHER               -> PyMax(0, RoundDiv(100 * m - 100 * (current - rop), m))

\* mutant: a component exactly at its reorder point is ordered for
OrderQtyAtReorderPoint(current, rop, eoq) ==
    IF current <= rop THEN PyMax(0, rop - current + eoq) ELSE 0

\* max(0, rop - current + eoq) if current < rop else 0
OrderQty(current, rop, eoq) ==
    IF current < rop THEN PyMax(0, rop - current + eoq) ELSE 0

\* the record the loop body appends for one inventory row
PolicyRecord(row, sl, fc) ==
    LET est == DemandEstimate(row, fc)
        result == calculate_safety_stock(est[1], est[2], row.lead_time_weeks,
                                         row.lead_time_std_weeks, sl)
        current == row.current_stock
        ss == result.safety_stock
        rop == result.reorder_point
        eoq == Eoq(est[1], row.unit_cost)
        status == StatusOf(current, ss, rop)
    IN  [component_id |-> row.component_id,
         series |-> row.series,
         current_stock |-> current,
         safety_stock |-> ss,
         reorder_point |-> rop,
         eoq |-> eoq,
         weekly_demand |-> result.weekly_demand,
         lead_time_weeks |-> row.lead_time_weeks,
         lead_time_std_weeks |-> row.lead_time_std_weeks,
         weeks_of_cover |-> RoundDiv(current * 100, PyMax(result.weekly_demand, 1)),
         unit_cost |-> row.unit_cost,
         status |-> status,
         stockout_risk |-> RiskOf(status, current, rop),
         service_level |-> sl,
         recommended_order_qty |-> OrderQty(current, rop, eoq)]

\* does the loop body raise on this row
PolicyRaises(row, sl, fc) ==
    LET est == DemandEstimate(row, fc)
    IN  calculate_safety_stock(est[1], est[2], row.lead_time_weeks,
                               row.lead_time_std_weeks, sl).raises

\* ------------------------------------------------ recommendation engine
RECURSIVE MaxSeq(_)
MaxSeq(s) == IF Len(s) = 1 THEN Head(s)
             ELSE LET m == MaxSeq(Tail(s)) IN IF Head(s) >= m THEN Head(s) ELSE m

\* mutant: the spike test runs on the whole forecast table, not on the rows
\* of the component's (category, variant)
ForecastAlertUnfiltered(row, fc) ==
    LET p == IF fc.given THEN [k \in 1..Len(fc.rows) |-> fc.rows[k].predicted] ELSE << >>
        n == Len(p)
    IN  IF n = 0 THEN << >>
        ELSE LET mx == MaxSeq(p)
                 sum == SumSeq(p)
             IN  IF 10 * n * mx > 13 * sum
                 THEN <<RoundDiv(100 * (mx * n - sum), sum), RoundDiv(mx * n - sum, n)>>
                 ELSE << >>

\* forecast spike overlay: << >> when no alert is attached, else
\* <<spike_pct, units>>;  max > mean*1.3  is  10*n*max > 13*sum
ForecastAlert(row, fc) ==
    LET p == IF fc.given THEN Predicted(fc, row.series) ELSE << >>
        n == Len(p)
    IN  IF n = 0 THEN << >>
        ELSE LET mx == MaxSeq(p)
                 sum == SumSeq(p)
             IN  IF 10 * n * mx > 13 * sum
                 THEN <<RoundDiv(100 * (mx * n - sum), sum), RoundDiv(mx * n - sum, n)>>
                 ELSE << >>

\* mutant: the warning deadline is not floored at today
RecommendationNoFloor(row, fc) ==
    LET lead10 == 10 * row.lead_time_weeks
        cover10 == row.weeks_of_cover
        base == [component_id |-> row.component_id,
                 series |-> row.series,
                 status |-> row.status,
                 stockout_risk |-> row.stockout_risk,
                 current_stock |-> row.current_stock,
                 safety_stock |-> row.safety_stock,
                 reorder_point |-> row.reorder_point,
                 weeks_of_cover |-> row.weeks_of_cover,
                 lead_time_weeks |-> row.lead_time_weeks,
                 forecast_alert |-> ForecastAlert(row, fc)]
        qty == row.recommended_order_qty
    IN  IF row.status = "critical"
        THEN IF cover10 < lead10
             THEN base @@ [priority |-> 1,
                           message |-> [kind |-> "critical_late", qty |-> qty,
                                        stockout_date |-> cover10,
                                        order_deadline |-> 0 - (lead10 - cover10)]]
             ELSE base @@ [priority |-> 1,
                           message |-> [kind |-> "critical", qty |-> qty]]
        ELSE IF row.status = "warning"
        THEN base @@ [priority |-> 2,
                      message |-> [kind |-> "warning", qty |-> qty,
                                   order_by |-> cover10 - lead10]]
        ELSE base @@ [priority |-> 3, message |-> [kind |-> "ok"]]

\* the rec built for one stock policy row; dates are offsets from today in
\* tenths of a week
Recommendation(row, fc) ==
    LET lead10 == 10 * row.lead_time_weeks
        cover10 == row.weeks_of_cover
        base == [component_id |-> row.component_id,
                 series |-> row.series,
                 status |-> row.status,
                 stockout_risk |-> row.stockout_risk,
                 current_stock |-> row.current_stock,
                 safety_stock |-> row.safety_stock,
                 reorder_point |-> row.reorder_point,
                 weeks_of_cover |-> row.weeks_of_cover,
                 lead_time_weeks |-> row.lead_time_weeks,
                 forecast_alert |-> ForecastAlert(row, fc)]
        qty == row.recommended_order_qty
    IN  IF row.status = "critical"
        THEN IF cover10 < lead10
             THEN base @@ [priority |-> 1,
                           message |-> [kind |-> "critical_late", qty |-> qty,
                                        stockout_date |-> cover10,
                                        order_deadline |-> 0 - (lead10 - cover10)]]
             ELSE base @@ [priority |-> 1,
                           message |-> [kind |-> "critical", qty |-> qty]]
        ELSE IF row.status = "warning"
        THEN base @@ [priority |-> 2,
                      message |-> [kind |-> "warning", qty |-> qty,
                                   order_by |-> PyMax(0, cover10 - lead10)]]
        ELSE base @@ [priority |-> 3, message |-> [kind |-> "ok"]]

\* the sort key (priority, -stockout_risk), compared as Python compares tuples
KeyLess(a, b) ==
    \/ a.priority < b.priority
    \/ a.priority = b.priority /\ (0 - a.stockout_risk) < (0 - b.stockout_risk)

RECURSIVE InsertStableTiesFirst(_, _)
\* mutant: an unstable sort, r goes before the entries with an equal key
InsertStableTiesFirst(sorted, r) ==
    IF sorted = << >> THEN <<r>>
    ELSE IF ~KeyLess(Head(sorted), r) THEN <<r>> \o sorted
    ELSE <<Head(sorted)>> \o InsertStableTiesFirst(Tail(sorted), r)

RECURSIVE InsertStable(_, _)
\* insert r after every element whose key is not greater than r's
InsertStable(sorted, r) ==
    IF sorted = << >> THEN <<r>>
    ELSE IF KeyLess(r, Head(sorted)) THEN <<r>> \o sorted
    ELSE <<Head(sorted)>> \o InsertStable(Tail(sorted), r)

RECURSIVE SortStable(_, _)
\* list.sort(key=...): stable
SortStable(todo, sorted) ==
    IF todo = << >> THEN sorted
    ELSE SortStable(Tail(todo), InsertStable(sorted, Head(todo)))

generate_recommendations(safety_stock_df, fc) ==
    SortStable([i \in 1..Len(safety_stock_df) |->
                    Recommendation(safety_stock_df[i], fc)], << >>)

\* ------------------------------------------------------------ forecaster
\* the last k elements of s (all of s when it is shorter): s[-k:]
LastN(s, k) == IF Len(s) <= k THEN s ELSE SubSeq(s, Len(s) - k + 1, Len(s))

\* np.mean in tenths, 0 for an empty list
MeanOrZero(s) == IF s = << >> THEN 0 ELSE RoundDiv(10 * SumSeq(s), Len(s))

\* np.std (ddof = 0) in tenths
PopStd(s) == RoundSqrt(100 * (Len(s) * SumSq(s) - SumSeq(s) * SumSeq(s)),
                       Len(s) * Len(s))

\* pandas rolling(...).std() (ddof = 1) in tenths, NaN below two observations
SampleStd(s) == AggStd(s)

\* pd.to_datetime of a date string
ToDatetime(d) == [d EXCEPT !.type = "datetime"]

\* .dt.to_period("M"): the month of a timestamp
ToPeriod(d) == d.month

\* orders_df["order_date"] = pd.to_datetime(...);
\* orders_df["year_month"] = orders_df["order_date"].dt.to_period("M")
WithYearMonth(orders) ==
    [columns |-> orders.columns \o <<"year_month">>,
     rows |-> [i \in 1..Len(orders.rows) |->
                 [order_id |-> orders.rows[i].order_id,
                  order_date |-> ToDatetime(orders.rows[i].order_date),
                  bus_model |-> orders.rows[i].bus_model,
                  variant |-> orders.rows[i].variant,
                  year_month |-> ToPeriod(ToDatetime(orders.rows[i].order_date))]]]

\* groupby(["year_month", col]).size() of one group
GroupSize(rows, m, v) ==
    Cardinality({i \in 1..Len(rows) : rows[i].year_month = m /\ rows[i].variant = v})

RECURSIVE GroupRows(_, _, _)
\* the groups of one variant for the months up to m, in month order; a month
\* without an order of the variant has no group
GroupRows(rows, v, m) ==
    IF m = 0 THEN << >>
    ELSE GroupRows(rows, v, m - 1) \o
         (IF GroupSize(rows, m, v) > 0
          THEN <<[series |-> v, period |-> m, demand |-> GroupSize(rows, m, v)]>>
          ELSE << >>)

RECURSIVE GroupsUpTo(_, _, _)
GroupsUpTo(rows, n, last) ==
    IF n = 0 THEN << >>
    ELSE GroupsUpTo(rows, n - 1, last) \o GroupRows(rows, n, last)

\* the monthly demand table of an orders table that carries year_month,
\* sorted by (category, variant, year_month)
build_monthly_demand(orders) ==
    LET last == CHOOSE m \in {r.year_month : r \in {orders.rows[i] : i \in 1..Len(orders.rows)}} :
                    \A i \in 1..Len(orders.rows) : orders.rows[i].year_month <= m
    IN  GroupsUpTo(orders.rows, NumSeries, last)

\* rows of one series, in table order
RowsOf(table, series) == SelectSeq(table, LAMBDA r : r.series = series)

RECURSIVE InsertByPeriod(_, _)
InsertByPeriod(sorted, r) ==
    IF sorted = << >> THEN <<r>>
    ELSE IF r.period < Head(sorted).period THEN <<r>> \o sorted
    ELSE <<Head(sorted)>> \o InsertByPeriod(Tail(sorted), r)

RECURSIVE SortByPeriod(_, _)
\* sort_values("year_month")
SortByPeriod(todo, sorted) ==
    IF todo = << >> THEN sorted
    ELSE SortByPeriod(Tail(todo), InsertByPeriod(sorted, Head(todo)))

DemandsOf(table) == [i \in 1..Len(table) |-> table[i].demand]

\* group.shift(lag) at position i of a group's demand list: the lag-th
\* previous row of the group, NaN when there is none
Shift(demands, i, lag) == IF i - lag >= 1 THEN demands[i - lag] ELSE NaN

\* fillna(0)
FillNa(x) == IF IsNaN(x) THEN 0 ELSE x

\* add_features on the rows of one series (already in period order), followed
\* by dropna(subset=["lag_1"]) and fillna(0) of the numeric features
FeatureRows(group) ==
    LET d == DemandsOf(group)
        prev(i) == SubSeq(d, 1, i - 1)
        feat(i) == [series |-> group[i].series,
                    period |-> group[i].period,
                    demand |-> group[i].demand,
                    lag_1 |-> FillNa(Shift(d, i, 1)),
                    lag_3 |-> FillNa(Shift(d, i, 3)),
                    lag_6 |-> FillNa(Shift(d, i, 6)),
                    lag_12 |-> FillNa(Shift(d, i, 12)),
                    rolling_mean_3 |-> MeanOrZero(LastN(prev(i), 3)),
                    rolling_std_3 |-> FillNa(SampleStd(LastN(prev(i), 3))),
                    rolling_mean_6 |-> MeanOrZero(LastN(prev(i), 6))]
    IN  SelectSeq([i \in 1..Len(group) |-> [f |-> feat(i), keep |-> ~IsNaN(Shift(d, i, 1))]],
                  LAMBDA x : x.keep)

RECURSIVE ConcatSeries(_, _)
\* the usable feature rows of every series 1..n, in table order
ConcatSeries(table, n) ==
    IF n = 0 THEN << >>
    ELSE ConcatSeries(table, n - 1) \o
         [i \in 1..Len(FeatureRows(RowsOf(table, n))) |->
              FeatureRows(RowsOf(table, n))[i].f]

RECURSIVE MaxPeriod(_)
\* demand_df["year_month"].max()
MaxPeriod(table) ==
    IF Len(table) = 1 THEN Head(table).period
    ELSE LET m == MaxPeriod(Tail(table))
         IN  IF Head(table).period >= m THEN Head(table).period ELSE m

\* mutant: the cutoff is one month late, five months are held out
CutoffShort(table) == MaxPeriod(table) - Horizon + 1

\* cutoff = max - 6 months
Cutoff(table) == MaxPeriod(table) - Horizon

TrainRows(table) == SelectSeq(table, LAMBDA r : r.period <= Cutoff(table))
TestRows(table) == SelectSeq(table, LAMBDA r : r.period > Cutoff(table))

\* model.predict on one feature row, then max(0, .): tenths of a unit.  The
\* fitted regressor is some fixed function of the features.
Predict(m, row) ==
    PyMax(0, 5 * m.w_lag * row.lag_1 + (m.w_roll * row.rolling_mean_3) \div 2 + 10 * m.bias)

\* the series present in the table, in order of first appearance
\* (drop_duplicates on a table sorted by category, variant)
Combos(table) ==
    SelectSeq([n \in 1..NumSeries |-> n], LAMBDA n : RowsOf(table, n) # << >>)

\* mutant: the features are recomputed from the historical rows only
ForecastRowHistoryOnly(buffer, m, series, future_date) ==
    LET hist == SortByPeriod(RowsOf(demand_df, series), << >>)
        demands == DemandsOf(hist)
        lag(k) == IF Len(demands) >= k THEN demands[Len(demands) - k + 1] ELSE 0
        recent == LastN(demands, 3)
        feats == [series |-> series,
                  period |-> future_date,
                  lag_1 |-> lag(1),
                  lag_3 |-> lag(3),
                  lag_6 |-> lag(6),
                  lag_12 |-> lag(12),
                  rolling_mean_3 |-> MeanOrZero(recent),
                  rolling_std_3 |-> IF Len(recent) > 1 THEN PopStd(recent) ELSE 0,
                  rolling_mean_6 |-> MeanOrZero(LastN(demands, 6))]
        pred == Predict(m, feats)
    IN  feats @@ [demand |-> RoundDiv(pred, 10), predicted |-> RoundDiv(pred, 10)]

\* the row the forecast loop builds for one combo at step i
ForecastRow(buffer, m, series, future_date) ==
    LET hist == SortByPeriod(RowsOf(buffer, series), << >>)
        demands == DemandsOf(hist)
        lag(k) == IF Len(demands) >= k THEN demands[Len(demands) - k + 1] ELSE 0
        recent == LastN(demands, 3)
        feats == [series |-> series,
                  period |-> future_date,
                  lag_1 |-> lag(1),
                  lag_3 |-> lag(3),
                  lag_6 |-> lag(6),
                  lag_12 |-> lag(12),
                  rolling_mean_3 |-> MeanOrZero(recent),
                  rolling_std_3 |-> IF Len(recent) > 1 THEN PopStd(recent) ELSE 0,
                  rolling_mean_6 |-> MeanOrZero(LastN(demands, 6))]
        pred == Predict(m, feats)
    IN  feats @@ [demand |-> RoundDiv(pred, 10), predicted |-> RoundDiv(pred, 10)]

\* ----------------------------------------------------------------- inputs
Row(id, series, current, cost, lead, ltstd10, avg10) ==
    [component_id |-> id, series |-> series, current_stock |-> current,
     unit_cost |-> cost, lead_time_weeks |-> lead,
     lead_time_std_weeks |-> ltstd10, monthly_demand_avg |-> avg10]

\* one-row inventory tables over a wide range of cells, invalid ones included
WideInventories ==
    { <<Row(1, 1, c, u, l, sd, a)>> :
        c \in {-5, 0, 20, 31, 76, 153, 154, 300},
        u \in {-100, 0, 2500, NaN},
        l \in {-4, -2, 0, 1, 4},
        sd \in {0, 10, 20},
        a \in {0, 10, 1000} }

SmallRows ==
    { Row(0, 1, c, u, l, 10, 1000) : c \in {20, 100, 300}, u \in {2500, NaN}, l \in {4, -4} }

\* inventory tables of 2..MaxRows rows; component_id is the row's position
MultiInventories ==
    UNION { { [i \in 1..n |-> [f[i] EXCEPT !.component_id = i]] : f \in [1..n -> SmallRows] }
            : n \in 2..MaxRows }

\* two components of equal unit cost and different demand
PairInventories ==
    { <<Row(1, 1, 20, u, 4, 10, a), Row(2, 1, 20, u, 4, 10, b)>> :
        u \in {500, 2500},
        a \in {0, 10, 20, 50, 100, 500, 1000, 1500},
        b \in {0, 10, 20, 50, 100, 500, 1000, 1500} }

\* ordering costs the EOQ expression is evaluated at, in increasing order
OrderingCosts == <<1, 10, 49, OrderingCost, 51, 100>>

ForecastArgs ==
    { [given |-> FALSE, rows |-> << >>],
      [given |-> TRUE, rows |-> << >>],
      [given |-> TRUE, rows |-> <<[series |-> 1, predicted |-> 100],
                                  [series |-> 1, predicted |-> 150],
                                  [series |-> 1, predicted |-> 50]>>],
      [given |-> TRUE, rows |-> <<[series |-> 1, predicted |-> 0],
                                  [series |-> 2, predicted |-> 7],
                                  [series |-> 1, predicted |-> 0]>>],
      [given |-> TRUE, rows |-> <<[series |-> 1, predicted |-> 20],
                                  [series |-> 1, predicted |-> 5],
                                  [series |-> 1, predicted |-> 5],
                                  [series |-> 1, predicted |-> 5]>>],
      [given |-> TRUE, rows |-> <<[series |-> 1, predicted |-> 80]>>] }

ServiceLevels == {5, 30, 50, 95}

\* period sets of one (category, variant): months without orders are absent
Patterns ==
    { 1..NumPeriods,
      (1..NumPeriods) \ {NumPeriods - 2},
      1..(NumPeriods - 3),
      (NumPeriods - 4)..NumPeriods }

DemandAt(series, period) == 10 * series + period

RECURSIVE SeriesRows(_, _, _)
\* the rows of one series for the periods of pat up to period p, in order
SeriesRows(series, pat, p) ==
    IF p = 0 THEN << >>
    ELSE SeriesRows(series, pat, p - 1) \o
         (IF p \in pat THEN <<[series |-> series, period |-> p,
                               demand |-> DemandAt(series, p)]>>
          ELSE << >>)

RECURSIVE MonthlyTable(_, _)
\* sorted by (category, variant, year_month)
MonthlyTable(pats, n) ==
    IF n = 0 THEN << >>
    ELSE MonthlyTable(pats, n - 1) \o SeriesRows(n, pats[n], NumPeriods)

MonthlyTables == { MonthlyTable(pats, NumSeries) : pats \in [1..NumSeries -> Patterns] }

\* order_date as read from the csv, a string
DateStr(m, d) == [type |-> "str", month |-> m, day |-> d]

OrderRows ==
    { [order_date |-> DateStr(m, d), bus_model |-> "B1", variant |-> v] :
        m \in 1..2, d \in {5, 20}, v \in 1..NumSeries }

\* orders tables of 1..MaxRows orders with one component column; order_id is
\* the row's position
OrdersTables ==
    UNION { { [columns |-> <<"order_id", "order_date", "bus_model", "variant">>,
               rows |-> [i \in 1..n |-> [order_id |-> i,
                                          order_date |-> f[i].order_date,
                                          bus_model |-> f[i].bus_model,
                                          variant |-> f[i].variant]]] :
              f \in [1..n -> OrderRows] } : n \in 1..MaxRows }

Models == [w_lag : 0..1, w_roll : 0..1, bias : -1..MaxBias]

\* inventory tables as generate_inventory writes them: one valid row per
\* series, stocks low to high or high to low
PipelineInventories ==
    { [n \in 1..NumSeries |-> Row(n, n, 5 + 30 * (n - 1), 2500, 4, 10, 200)],
      [n \in 1..NumSeries |-> Row(n, n, 5 + 30 * (NumSeries - n), 2500, 4, 10, 200)] }

\* ---------------------------------------------------------------- actions
\* what main() prints between two stages
Header(e, lines) == IF e = "main" THEN log \o lines ELSE log

\* main(): the banner and the header of step 1
MainStart ==
    /\ pc = "start"
    /\ log' = <<"banner", "step1">>
    /\ pc' = "generate"
    /\ UNCHANGED <<entry, failure, recs>>
    /\ UNCHANGED policyVars
    /\ UNCHANGED forecastVars
    /\ UNCHANGED orders_df

\* step 1: generate_data() writes the order history and the inventory table
GenerateData ==
    /\ pc = "generate"
    /\ \E m \in MonthlyTables, inv \in PipelineInventories :
          /\ monthly' = m
          /\ inventory' = inv
    /\ log' = Header(entry, <<"step2">>)
    /\ pc' = "features"
    /\ UNCHANGED <<entry, failure, recs, service_level, forecast_in, idx, records,
                   result_df, demand_df, model, train, test, forecast_df,
                   future_records, step, combo>>
    /\ UNCHANGED orders_df

\* an exception escapes the running stage (an import, a read or an export
\* fails); main() has no handler, the interpreter prints the traceback
StageOf(p) ==
    CASE p = "generate" -> "generate_data"
      [] p \in {"features", "split", "forecast"} -> "run_forecaster"
      [] p = "policy" -> "run_safety_stock"
      [] p = "recommend" -> "run_recommender"

\* mutant: the exception of the stock policy stage is swallowed and main()
\* goes on with the next stage
StageRaiseSwallowed ==
    /\ pc \in {"generate", "features", "split", "forecast", "policy", "recommend"}
    /\ failure' = [stage |-> StageOf(pc), cause |-> "OSError"]
    /\ pc' = IF pc = "policy" THEN "recommend" ELSE "failed"
    /\ log' = IF pc = "policy" THEN log \o <<"step4">> ELSE log
    /\ UNCHANGED <<entry, recs>>
    /\ UNCHANGED policyVars
    /\ UNCHANGED forecastVars
    /\ UNCHANGED orders_df

StageRaise ==
    /\ pc \in {"generate", "features", "split", "forecast", "policy", "recommend"}
    /\ failure' = [stage |-> StageOf(pc), cause |-> "OSError"]
    /\ pc' = "failed"
    /\ UNCHANGED <<entry, log, recs>>
    /\ UNCHANGED policyVars
    /\ UNCHANGED forecastVars
    /\ UNCHANGED orders_df

\* build_monthly_demand(orders_df): the two column assignments on the
\* caller's table, then the grouped table
BuildMonthlyDemand ==
    /\ pc = "build"
    /\ orders_df' = WithYearMonth(orders_df)
    /\ monthly' = build_monthly_demand(WithYearMonth(orders_df))
    /\ pc' = "features"
    /\ UNCHANGED <<entry, log, failure, recs, demand_df, model, train, test,
                   forecast_df, future_records, step, combo>>
    /\ UNCHANGED policyVars

\* train_and_forecast: add_features, dropna(lag_1), fillna(0)
Features ==
    /\ pc = "features"
    /\ demand_df' = ConcatSeries(monthly, NumSeries)
    /\ pc' = "split"
    /\ UNCHANGED <<entry, log, failure, recs, monthly, model, train, test,
                   forecast_df, future_records, step, combo>>
    /\ UNCHANGED policyVars
    /\ UNCHANGED orders_df

\* the chronological split and model.fit on a non-empty training set
SplitAndFit ==
    /\ pc = "split"
    /\ demand_df # << >>
    /\ TrainRows(demand_df) # << >>
    /\ train' = TrainRows(demand_df)
    /\ test' = TestRows(demand_df)
    /\ \E m \in Models : model' = m
    /\ forecast_df' = demand_df
    /\ future_records' = << >>
    /\ step' = 1
    /\ combo' = 1
    /\ pc' = "forecast"
    /\ UNCHANGED <<entry, log, failure, recs, monthly, demand_df>>
    /\ UNCHANGED policyVars
    /\ UNCHANGED orders_df

\* no usable row, or no training row: the stage dies
FitRaises ==
    /\ pc = "split"
    /\ \/ demand_df = << >>
       \/ TrainRows(demand_df) = << >>
    /\ failure' = [stage |-> StageOf(pc), cause |-> "TrainingError"]
    /\ pc' = "failed"
    /\ UNCHANGED <<entry, log, recs>>
    /\ UNCHANGED policyVars
    /\ UNCHANGED forecastVars
    /\ UNCHANGED orders_df

\* one iteration of the inner loop: forecast one combo at step i and append
ForecastStep ==
    /\ pc = "forecast"
    /\ step <= Horizon
    /\ LET combos == Combos(demand_df)
           row == ForecastRow(forecast_df, model, combos[combo],
                              MaxPeriod(demand_df) + step)
       IN  /\ future_records' = Append(future_records, row)
           /\ forecast_df' = forecast_df \o <<row>>
           /\ IF combo < Len(combos)
              THEN combo' = combo + 1 /\ step' = step
              ELSE combo' = 1 /\ step' = step + 1
    /\ UNCHANGED <<pc, entry, log, failure, recs, monthly, demand_df, model, train, test>>
    /\ UNCHANGED policyVars
    /\ UNCHANGED orders_df

\* run() of the forecaster returns future_df; main() passes it on
ForecasterReturn ==
    /\ pc = "forecast"
    /\ step > Horizon
    /\ IF entry = "main"
       THEN /\ pc' = "policy"
            /\ forecast_in' = [given |-> TRUE,
                               rows |-> [i \in 1..Len(future_records) |->
                                            [series |-> future_records[i].series,
                                             predicted |-> future_records[i].predicted]]]
            /\ service_level' = 95
            /\ idx' = 1
            /\ records' = << >>
       ELSE /\ pc' = "done"
            /\ UNCHANGED <<forecast_in, service_level, idx, records>>
    /\ log' = Header(entry, <<"step3">>)
    /\ UNCHANGED <<entry, failure, recs, inventory, result_df>>
    /\ UNCHANGED forecastVars
    /\ UNCHANGED orders_df

\* the stock policy loop body on the next inventory row
PolicyRow ==
    /\ pc = "policy"
    /\ idx <= Len(inventory)
    /\ ~PolicyRaises(inventory[idx], service_level, forecast_in)
    /\ records' = Append(records, PolicyRecord(inventory[idx], service_level, forecast_in))
    /\ idx' = idx + 1
    /\ UNCHANGED <<pc, entry, log, failure, recs, inventory, service_level,
                   forecast_in, result_df>>
    /\ UNCHANGED forecastVars
    /\ UNCHANGED orders_df

\* round() of a NaN safety stock raises ValueError inside the loop
PolicyRaise ==
    /\ pc = "policy"
    /\ idx <= Len(inventory)
    /\ PolicyRaises(inventory[idx], service_level, forecast_in)
    /\ failure' = [stage |-> StageOf(pc), cause |-> "ValueError"]
    /\ pc' = "failed"
    /\ UNCHANGED <<entry, log, recs>>
    /\ UNCHANGED policyVars
    /\ UNCHANGED forecastVars
    /\ UNCHANGED orders_df

\* the loop is over: result_df = DataFrame(records) is returned
PolicyReturn ==
    /\ pc = "policy"
    /\ idx > Len(inventory)
    /\ result_df' = records
    /\ pc' = "recommend"
    /\ log' = Header(entry, <<"step4">>)
    /\ UNCHANGED <<entry, failure, recs, inventory, service_level, forecast_in,
                   idx, records>>
    /\ UNCHANGED forecastVars
    /\ UNCHANGED orders_df

\* the recommender's run(): generate_recommendations, export, return
Recommend ==
    /\ pc = "recommend"
    /\ recs' = generate_recommendations(result_df, forecast_in)
    /\ pc' = "done"
    /\ log' = Header(entry, <<"complete", "summary">>)
    /\ UNCHANGED <<entry, failure>>
    /\ UNCHANGED policyVars
    /\ UNCHANGED forecastVars
    /\ UNCHANGED orders_df

\* ---------------------------------------------------------- specifications
Idle ==
    /\ log = << >>
    /\ failure = [stage |-> "", cause |-> ""]
    /\ recs = << >>
    /\ result_df = << >>
    /\ records = << >>
    /\ idx = 1
    /\ demand_df = << >>
    /\ model = [w_lag |-> 0, w_roll |-> 0, bias |-> 0]
    /\ train = << >>
    /\ test = << >>
    /\ forecast_df = << >>
    /\ future_records = << >>
    /\ step = 1
    /\ combo = 1

\* no orders table is in play
NoOrders == [columns |-> << >>, rows |-> << >>]

\* the stock policy run on an inventory table, followed by the recommender
Init ==
    /\ orders_df = NoOrders
    /\ entry = "policy"
    /\ pc = "policy"
    /\ \/ /\ inventory \in WideInventories
          /\ service_level \in ServiceLevels
          /\ forecast_in \in ForecastArgs
       \/ /\ inventory \in MultiInventories
          /\ service_level \in {30, 95}
          /\ forecast_in \in {fc \in ForecastArgs : Len(fc.rows) = 3 \/ ~fc.given}
       \/ /\ inventory \in PairInventories
          /\ service_level = 95
          /\ forecast_in = [given |-> FALSE, rows |-> << >>]
    /\ monthly = << >>
    /\ Idle

Next == PolicyRow \/ PolicyRaise \/ PolicyReturn \/ Recommend

Spec == Init /\ [][Next]_vars

\* the forecaster's run() on a monthly demand table
InitForecast ==
    /\ orders_df = NoOrders
    /\ entry = "forecaster"
    /\ pc = "features"
    /\ monthly \in MonthlyTables
    /\ inventory = << >>
    /\ service_level = 95
    /\ forecast_in = [given |-> FALSE, rows |-> << >>]
    /\ Idle

NextForecast == Features \/ SplitAndFit \/ FitRaises \/ ForecastStep \/ ForecasterReturn

SpecForecast == InitForecast /\ [][NextForecast]_vars

\* build_monthly_demand on an orders table, then add_features on its result
InitBuild ==
    /\ entry = "forecaster"
    /\ pc = "build"
    /\ orders_df \in OrdersTables
    /\ monthly = << >>
    /\ inventory = << >>
    /\ service_level = 95
    /\ forecast_in = [given |-> FALSE, rows |-> << >>]
    /\ Idle

NextBuild == BuildMonthlyDemand \/ Features

SpecBuild == InitBuild /\ [][NextBuild]_vars

\* main() of the pipeline
InitMain ==
    /\ orders_df = NoOrders
    /\ entry = "main"
    /\ pc = "start"
    /\ monthly = << >>
    /\ inventory = << >>
    /\ service_level = 95
    /\ forecast_in = [given |-> FALSE, rows |-> << >>]
    /\ Idle

\* (the loop body of the stock policy cannot raise on the table that
\* generate_inventory writes and a forecast of Horizon rows per series)
NextMain ==
    \/ MainStart \/ GenerateData \/ StageRaise
    \/ Features \/ SplitAndFit \/ FitRaises \/ ForecastStep \/ ForecasterReturn
    \/ PolicyRow \/ PolicyReturn \/ Recommend

SpecMain == InitMain /\ [][NextMain]_vars

\* ------------------------------------------------------------- properties
RecordsOf == {records[k] : k \in 1..Len(records)}

\* C1: every record of the stock policy engine carries exactly one status of
\* {critical, warning, ok}, and it is the first that applies of
\* current <= 0.5*safety_stock (critical), current <= reorder_point (warning),
\* otherwise ok.
StatusTotalExclusive ==
    \A r \in RecordsOf :
        /\ r.status \in {"critical", "warning", "ok"}
        /\ (r.status = "critical") <=> (2 * r.current_stock <= r.safety_stock)
        /\ (r.status = "warning") <=> /\ 2 * r.current_stock > r.safety_stock
                                      /\ r.current_stock <= r.reorder_point
        /\ (r.status = "ok") <=> /\ 2 * r.current_stock > r.safety_stock
                                 /\ r.current_stock > r.reorder_point

\* a table with a critical, a warning and an ok component, the critical one
\* also at or below its reorder point
StatusAllThreeSeen ==
    /\ pc = "recommend"
    /\ \E a, b, c \in RecordsOf :
          /\ a.status = "critical" /\ a.current_stock <= a.reorder_point
          /\ b.status = "warning"
          /\ c.status = "ok"

\* C2: stockout_risk of every emitted record lies in [0, 1].
RiskInUnitInterval ==
    \A r \in RecordsOf : r.stockout_risk >= 0 /\ r.stockout_risk <= 1000

\* the inputs calculate_safety_stock is specified for
ValidPolicyInputs(r) ==
    /\ r.lead_time_weeks > 0
    /\ r.lead_time_std_weeks >= 0
    /\ r.service_level > 0 /\ r.service_level < 100

\* C3: for valid inputs (service_level anywhere in (0,1)) safety_stock >= 0
\* and reorder_point >= safety_stock.
SafetyStockNonNegative ==
    \A r \in RecordsOf :
        ValidPolicyInputs(r) => r.safety_stock >= 0 /\ r.reorder_point >= r.safety_stock

\* the sort order of the recommendation list, stated on two entries
Before(a, b) ==
    \/ a.priority < b.priority
    \/ a.priority = b.priority /\ a.stockout_risk > b.stockout_risk

SameKey(a, b) == a.priority = b.priority /\ a.stockout_risk = b.stockout_risk

\* position of a component in the table given to generate_recommendations
InputPos(id) == CHOOSE i \in 1..Len(result_df) : result_df[i].component_id = id

\* C4: generate_recommendations returns exactly one recommendation per input
\* row, ordered by priority ascending then stockout_risk descending, entries
\* with equal keys in the order of their input rows.
RecsSortedStable ==
    pc = "done" =>
        /\ Len(recs) = Len(result_df)
        /\ \A i \in 1..Len(result_df) :
              Cardinality({j \in 1..Len(recs) :
                              /\ recs[j].component_id = result_df[i].component_id
                              /\ recs[j].status = result_df[i].status
                              /\ recs[j].stockout_risk = result_df[i].stockout_risk}) = 1
        /\ \A i, j \in 1..Len(recs) :
              i < j => /\ ~Before(recs[j], recs[i])
                       /\ SameKey(recs[i], recs[j]) =>
                              InputPos(recs[i].component_id) < InputPos(recs[j].component_id)

\* a sorted list of three or more in which the sort moved an entry forward and
\* two entries tie
RecsSortedWitness ==
    /\ pc = "done"
    /\ Len(recs) >= 3
    /\ \E i, j \in 1..Len(recs) : i < j /\ SameKey(recs[i], recs[j])
    /\ \E i, j \in 1..Len(recs) : i < j /\ recs[i].component_id > recs[j].component_id

\* C5: no record is emitted for a component with negative current_stock,
\* negative unit_cost, non-positive lead_time_weeks or a service_level outside
\* (0,1).
InvalidRowsRejected ==
    \A r \in RecordsOf :
        /\ r.current_stock >= 0
        /\ ~Lt(r.unit_cost, 0)
        /\ r.lead_time_weeks > 0
        /\ r.service_level > 0 /\ r.service_level < 100

\* C6: a component whose inventory record is malformed (unit_cost missing) is
\* excluded from the stock policy output, and the run does not abort on it.
MalformedRowExcluded ==
    /\ \A r \in RecordsOf : ~IsNaN(r.unit_cost)
    /\ pc = "failed" => ~IsNaN(inventory[idx].unit_cost)

\* C10: recommended_order_qty = max(0, reorder_point - current_stock + eoq)
\* when current_stock < reorder_point, else 0; never negative.
OrderQtyFormula ==
    \A r \in RecordsOf :
        LET q == r.reorder_point - r.current_stock + r.eoq
        IN  /\ r.recommended_order_qty >= 0
            /\ r.current_stock < r.reorder_point =>
                  r.recommended_order_qty = (IF q > 0 THEN q ELSE 0)
            /\ r.current_stock >= r.reorder_point => r.recommended_order_qty = 0

\* a table with a component below its reorder point that gets a positive
\* quantity and one above it that gets none
OrderQtyWitness ==
    /\ pc = "recommend"
    /\ \E a, b \in RecordsOf :
          /\ a.current_stock < a.reorder_point /\ a.recommended_order_qty > a.eoq
          /\ b.current_stock > b.reorder_point /\ b.recommended_order_qty = 0

IsPrefix(a, b) == Len(a) <= Len(b) /\ SubSeq(b, 1, Len(a)) = a

FullLog == <<"banner", "step1", "step2", "step3", "step4", "complete", "summary">>

\* the header main() prints before it calls a stage
StageHeader(stage) ==
    CASE stage = "generate_data" -> "step1"
      [] stage = "run_forecaster" -> "step2"
      [] stage = "run_safety_stock" -> "step3"
      [] stage = "run_recommender" -> "step4"

LastLine == log[Len(log)]

ForecastComplete == Len(future_records) = Horizon * Len(Combos(demand_df))

PipelineState ==
    /\ IsPrefix(log, FullLog)
    /\ pc \in {"features", "split", "forecast"} =>
          /\ LastLine = "step2"
          /\ monthly # << >> /\ inventory # << >>
          /\ records = << >> /\ result_df = << >> /\ recs = << >>
    /\ pc = "policy" =>
          /\ LastLine = "step3"
          /\ ForecastComplete /\ forecast_in.given
          /\ Len(forecast_in.rows) = Len(future_records)
          /\ result_df = << >> /\ recs = << >>
    /\ pc = "recommend" =>
          /\ LastLine = "step4"
          /\ ForecastComplete
          /\ Len(result_df) = Len(inventory)
          /\ recs = << >>
    /\ pc = "done" =>
          /\ LastLine = "summary"
          /\ Len(recs) = Len(inventory)
    /\ pc = "failed" =>
          /\ \A k \in 1..Len(log) : log[k] # "complete"
          /\ failure.cause # ""
          /\ StageHeader(failure.stage) = LastLine
          /\ recs = << >>
          /\ failure.stage \in {"generate_data", "run_forecaster"} =>
                records = << >> /\ result_df = << >>
          /\ failure.stage = "generate_data" =>
                demand_df = << >> /\ future_records = << >>

\* C7: the stages run in the order data generation, forecasting, stock policy,
\* recommendation, each after the previous one completed; once a stage failed
\* no later stage runs, the completion banner is never printed, and the report
\* names the failing stage (the one whose header was printed last) and a cause.
PipelineOrdered ==
    /\ []PipelineState
    /\ [][pc = "failed" => pc' = "failed"]_vars

\* the stock policy stage failed after the first two stages completed
PipelineFailedAtPolicy ==
    /\ pc = "failed"
    /\ failure.stage = "run_safety_stock"
    /\ log = <<"banner", "step1", "step2", "step3">>
    /\ ForecastComplete

\* demands of a series as the forecast of period t must see them: the
\* historical rows, then the forecasts of the earlier periods
Extended(series, t) ==
    DemandsOf(RowsOf(demand_df, series)) \o
    [k \in 1..Len(SelectSeq(future_records,
                            LAMBDA f : f.series = series /\ f.period < t)) |->
        SelectSeq(future_records,
                  LAMBDA f : f.series = series /\ f.period < t)[k].predicted]

FromEnd(s, k) == IF Len(s) >= k THEN s[Len(s) - k + 1] ELSE 0

ForecastState ==
    /\ \A k \in 1..Len(future_records) :
          LET r == future_records[k]
              ext == Extended(r.series, r.period)
          IN  /\ r.lag_1 = FromEnd(ext, 1)
              /\ r.lag_3 = FromEnd(ext, 3)
              /\ r.lag_6 = FromEnd(ext, 6)
              /\ r.lag_12 = FromEnd(ext, 12)
              /\ r.rolling_mean_3 = MeanOrZero(LastN(ext, 3))
              /\ r.rolling_mean_6 = MeanOrZero(LastN(ext, 6))
              /\ r.demand = r.predicted
              /\ \A j \in 1..Len(future_records) :
                    /\ future_records[j].series = r.series
                    /\ future_records[j].period + 1 = r.period
                    => r.lag_1 = future_records[j].predicted
    /\ pc = "forecast" =>
          /\ forecast_df = demand_df \o future_records
          /\ \A k \in 1..Len(future_records) :
                /\ future_records[k].period > MaxPeriod(demand_df)
                /\ future_records[k].period <= MaxPeriod(demand_df) + Horizon
          /\ step > Horizon => ForecastComplete

\* C8: the multi-step forecast is a loop over a growing append-only buffer:
\* the lag and rolling features of step i of a series come from its historical
\* rows followed by its forecasts of steps 1..i-1 (lag_1 of step i+1 is the
\* forecast of step i), each forecast is in the buffer before the next is
\* computed, and no buffer entry is changed or removed.
ForecastLoopRecursive ==
    /\ []ForecastState
    /\ [][pc = "forecast" => IsPrefix(forecast_df, forecast_df')]_vars

\* the loop is over, and a last-step forecast has the first-step forecast as
\* lag_6 and a lag_1 that is a forecast, not the last historical demand
ForecastLoopWitness ==
    /\ pc = "forecast"
    /\ step > Horizon
    /\ \E a, b, c \in {future_records[k] : k \in 1..Len(future_records)} :
          /\ a.series = b.series /\ b.series = c.series
          /\ a.period = MaxPeriod(demand_df) + 1
          /\ b.period = MaxPeriod(demand_df) + Horizon - 1
          /\ c.period = MaxPeriod(demand_df) + Horizon
          /\ c.lag_6 = a.predicted
          /\ c.lag_1 = b.predicted
          /\ c.lag_1 # FromEnd(DemandsOf(RowsOf(demand_df, c.series)), 1)

SetOf(s) == {s[k] : k \in 1..Len(s)}

\* C9: the split is chronological: the holdout is exactly the usable rows of
\* the 6 most recent calendar periods, the training set exactly the usable rows
\* of the earlier periods; they are disjoint, cover every usable row, and every
\* training period is earlier than every holdout period.
ChronologicalSplit ==
    pc \in {"forecast", "done"} =>
        LET last == MaxPeriod(demand_df)
            recent == (last - 5)..last
        IN  /\ SetOf(test) = {r \in SetOf(demand_df) : r.period \in recent}
            /\ SetOf(train) = {r \in SetOf(demand_df) : r.period < last - 5}
            /\ SetOf(train) \cap SetOf(test) = {}
            /\ SetOf(train) \cup SetOf(test) = SetOf(demand_df)
            /\ Len(train) + Len(test) = Len(demand_df)
            /\ \A a \in SetOf(train), b \in SetOf(test) : a.period < b.period

\* a split with training rows, a holdout spanning six periods, and a series
\* with a month missing inside the holdout window
ChronologicalSplitWitness ==
    /\ pc = "forecast"
    /\ train # << >>
    /\ Cardinality({r.period : r \in SetOf(test)}) = 6
    /\ \E n \in 1..NumSeries :
          /\ RowsOf(test, n) # << >>
          /\ Len(RowsOf(test, n)) < 6
          /\ RowsOf(train, n) # << >>

Abs(x) == IF x < 0 THEN 0 - x ELSE x

NoForecast == [given |-> FALSE, rows |-> << >>]

\* predicted demand of the forecast rows of one (category, variant)
ForecastOf(series) ==
    LET rows == SelectSeq(forecast_in.rows, LAMBDA f : f.series = series)
    IN  [k \in 1..Len(rows) |-> rows[k].predicted]

\* C11: a forecast_alert is attached exactly when forecast rows exist for the
\* component's (category, variant) and their maximum exceeds 1.3 times their
\* mean; it reports (max/mean - 1)*100 and max - mean, each as the nearest
\* whole number (max=150, mean=100: 50% and 50 units); status, priority and
\* message are what they are without a forecast; an all-zero forecast gives
\* no alert.
ForecastAlertRule ==
    pc = "done" =>
        \A j \in 1..Len(recs) :
            LET r == recs[j]
                row == result_df[InputPos(r.component_id)]
                p == ForecastOf(r.series)
                n == Len(p)
                sum == SumSeq(p)
                mx == CHOOSE x \in SetOf(p) : \A y \in SetOf(p) : y <= x
                spike == forecast_in.given /\ n > 0 /\ 10 * n * mx > 13 * sum
            IN  /\ (r.forecast_alert # << >>) <=> spike
                /\ spike =>
                      /\ 2 * Abs(r.forecast_alert[1] * sum - 100 * (mx * n - sum)) <= sum
                      /\ 2 * Abs(r.forecast_alert[2] * n - (mx * n - sum)) <= n
                /\ (spike /\ mx = 150 /\ sum = 100 * n) => r.forecast_alert = <<50, 50>>
                /\ (n > 0 /\ sum = 0) => r.forecast_alert = << >>
                /\ r.status = row.status
                /\ r.priority = (CASE row.status = "critical" -> 1
                                   [] row.status = "warning" -> 2
                                   [] OTHER -> 3)
                /\ r.message = Recommendation(row, NoForecast).message

\* the scenario max=150, mean=100: a critical component alerted with 50% and
\* 50 units
ForecastAlertWitness ==
    /\ pc = "done"
    /\ \E j \in 1..Len(recs) :
          /\ recs[j].forecast_alert = <<50, 50>>
          /\ recs[j].priority = 1
          /\ recs[j].message.kind = "critical_late"

\* C12: priority is 1 for critical, 2 for warning, 3 for ok; a critical
\* component whose weeks_of_cover is below its lead time gets order_deadline =
\* today - (lead_time_weeks - weeks_of_cover), strictly before today, and
\* stockout_date = today + weeks_of_cover; a warning component gets order_by =
\* today + max(0, weeks_of_cover - lead_time_weeks), never before today; an ok
\* component carries no deadline.  (Dates are offsets from today, in tenths of
\* a week.)
DeadlineRule ==
    pc = "done" =>
        \A j \in 1..Len(recs) :
            LET r == recs[j]
                lead10 == 10 * r.lead_time_weeks
                cover10 == r.weeks_of_cover
                gap == cover10 - lead10
            IN  /\ r.status = "critical" => r.priority = 1
                /\ r.status = "warning" => r.priority = 2
                /\ r.status = "ok" => r.priority = 3
                /\ (r.status = "critical" /\ cover10 < lead10) =>
                      /\ r.message.order_deadline = gap
                      /\ r.message.order_deadline < 0
                      /\ r.message.stockout_date = cover10
                /\ r.status = "warning" =>
                      /\ r.message.order_by = (IF gap > 0 THEN gap ELSE 0)
                      /\ r.message.order_by >= 0
                /\ r.status = "ok" => DOMAIN r.message = {"kind"}

\* a list with a critical component past its deadline, a warning component
\* with a deadline after today, and an ok one
DeadlineWitness ==
    /\ pc = "done"
    /\ \E a, b, c \in SetOf(recs) :
          /\ a.status = "critical" /\ a.message.kind = "critical_late"
          /\ a.message.order_deadline < 0
          /\ b.status = "warning" /\ b.message.order_by > 0
          /\ c.status = "ok"

\* the monthly demand mean (tenths) the record of a component was computed from
MeanOf(r) == DemandEstimate(inventory[r.component_id], forecast_in)[1]

\* C13: with unit_cost > 0, EOQ never gets smaller when annual_demand or
\* ordering_cost is raised and the rest is held fixed, and EOQ is at least 1.
EoqMonotone ==
    /\ \A r \in RecordsOf :
          Gt(r.unit_cost, 0) =>
              /\ r.eoq >= 1
              /\ LET e == [k \in DOMAIN OrderingCosts |->
                               EoqAt(MeanOf(r), r.unit_cost, OrderingCosts[k])]
                 IN  /\ \A k \in DOMAIN e : e[k] >= 1
                     /\ \A k \in DOMAIN e :
                           /\ k > 1 => e[k - 1] <= e[k]
                           /\ OrderingCosts[k] = OrderingCost => r.eoq = e[k]
    /\ \A r1, r2 \in RecordsOf :
          /\ Gt(r1.unit_cost, 0)
          /\ r1.unit_cost = r2.unit_cost
          /\ MeanOf(r1) <= MeanOf(r2)
          => r1.eoq <= r2.eoq

\* two components of equal positive unit cost, the one with the larger demand
\* with the strictly larger EOQ, the other with an EOQ held at the floor
EoqMonotoneWitness ==
    /\ pc = "recommend"
    /\ \E r1, r2 \in RecordsOf :
          /\ Gt(r1.unit_cost, 0)
          /\ r1.unit_cost = r2.unit_cost
          /\ MeanOf(r1) = 0 /\ r1.eoq = 1
          /\ MeanOf(r1) < MeanOf(r2)
          /\ r1.eoq < r2.eoq
          /\ EoqAt(MeanOf(r2), r2.unit_cost, 10) < r2.eoq
          /\ r2.eoq < EoqAt(MeanOf(r2), r2.unit_cost, 100)

\* C14: the demand estimate of a component is the mean and the standard
\* deviation of the predicted demand of its (category, variant) when forecast
\* rows exist for it; otherwise the mean is monthly_demand_avg and the standard
\* deviation is 0.3 times that mean, floored at 1.
DemandEstimateRule ==
    \A r \in RecordsOf :
        LET row == inventory[r.component_id]
            p == ForecastOf(row.series)
            est == DemandEstimate(row, forecast_in)
        IN  IF Len(p) > 0
            THEN est = <<AggMean(p), AggStd(p)>>
            ELSE /\ est[1] = row.monthly_demand_avg
                 /\ est[2] = PyMax(RoundDiv(3 * row.monthly_demand_avg, 10), 10)
                 /\ est[2] >= 10

\* the periods of one series in the monthly table
PeriodsOf(series) == {monthly[i].period : i \in {j \in 1..Len(monthly) : monthly[j].series = series}}

\* the demand of a series at a calendar period: zero for a month never emitted
DemandOfPeriod(series, t) ==
    IF t \in PeriodsOf(series)
    THEN (CHOOSE m \in SetOf(monthly) : m.series = series /\ m.period = t).demand
    ELSE 0

\* lag_k of the row of a series at period t, by the calendar; a lag before the
\* start of the series is undefined and reads 0 after fillna(0)
LagAt(series, t, k) ==
    IF \A q \in PeriodsOf(series) : t - k < q THEN 0 ELSE DemandOfPeriod(series, t - k)

\* C15: for every series and period t, lag_k (k in {1,3,6,12}) is the demand
\* of the series at calendar period t-k, undefined when t-k precedes the start
\* of the series, also when zero-demand months of the series were never emitted.
LagByCalendar ==
    \A r \in SetOf(demand_df) :
        /\ r.lag_1 = LagAt(r.series, r.period, 1)
        /\ r.lag_3 = LagAt(r.series, r.period, 3)
        /\ r.lag_6 = LagAt(r.series, r.period, 6)
        /\ r.lag_12 = LagAt(r.series, r.period, 12)

\* C16: every stage leaves the table it was given as it was: the orders table
\* over build_monthly_demand, the monthly demand table over add_features and
\* train_and_forecast, the forecast over the stock policy run, the policy table
\* and the forecast over generate_recommendations.
StagesKeepInputs ==
    [][/\ pc = "build" => orders_df' = orders_df
       /\ pc \in {"features", "split", "forecast"} => monthly' = monthly
       /\ pc = "policy" => forecast_in' = forecast_in
       /\ pc = "recommend" => result_df' = result_df /\ forecast_in' = forecast_in]_vars

\* a record of a component with valid cells and a safety stock that is not
\* negative
WellFormed(r) ==
    /\ ValidPolicyInputs(r)
    /\ r.current_stock >= 0
    /\ r.weekly_demand > 0
    /\ Gt(r.unit_cost, 0)
    /\ r.safety_stock >= 0

\* C17: status and order quantity agree for every component (stated on the
\* well-formed records only): recommended_order_qty > 0 whenever status is
\* critical or warning, and recommended_order_qty = 0 whenever status is ok.
StatusQtyAgree ==
    \A r \in RecordsOf :
        WellFormed(r) =>
            /\ r.status \in {"critical", "warning"} => r.recommended_order_qty > 0
            /\ r.status = "ok" => r.recommended_order_qty = 0

====
